---- MODULE Spec2Model ----
(***************************************************************************)
(* State-machine model of the PDF editor backend (app/api/v1, app/tasks,   *)
(* app/services): the session lifecycle, the per-session operation log,    *)
(* session images, commit/compositing, webhook status and cleanup.         *)
(*                                                                         *)
(* The database tables are the variables files, sessions, ops and images;  *)
(* the storage directories are uploads, edited and tempFiles.  A request   *)
(* handler is split at the database statements that other requests can     *)
(* interleave with; req holds each in-flight request's position and        *)
(* locals.  Time is counted in hours.                                      *)
(***************************************************************************)
EXTENDS Integers, FiniteSets, Sequences, TLC

\* ------------------------------------------------------------- bounds
MaxFiles    == 1      \* files ever uploaded
MaxSessions == 2      \* sessions ever created
MaxOps      == 3      \* operations ever inserted
MaxImages   == 1      \* images ever uploaded
MaxTime     == 3      \* hours the clock advances
MaxRequests == 2      \* requests in flight at once
MaxSweeps   == 2      \* cleanup sweeps started
MaxPages    == 2      \* pages of an uploaded PDF

\* ------------------------------------------------- program constants
GracePeriodHours == 1
\* the age after which cleanup_orphaned_files removes an output file
OrphanAgeHours == 24
\* settings.WEBHOOK_RETRY_ATTEMPTS
WEBHOOK_RETRY_ATTEMPTS == 3

FileIds    == 1..MaxFiles
SessionIds == 1..MaxSessions
OpIds      == 1..MaxOps
ImageIds   == 1..MaxImages
Requests   == 1..MaxRequests

\* NULL column value / absent key / unknown id or token a caller may send
Null == 0
\* NULL timestamp
NoTime == 0 - 1

\* expires_in_hours values a caller asks for (schema: 1..168)
ExpiryHours == {1}

\* a validation list that also lets an unrecognised kind through
valid_types_with_bogus ==
    {"add_image", "move_image", "resize_image", "delete_image", "rotate_image", "bogus"}

\* valid_types of create_operation
valid_types == {"add_image", "move_image", "resize_image", "delete_image", "rotate_image"}

\* operation_type values a caller sends: a recognised kind and one that is not
TypeInputs == {"add_image", "bogus"}

\* tokens and ids a caller may send: the real ones and an unknown one
TokenInputs   == {Null} \cup SessionIds
TokensFor(S)  == {Null} \cup S
SessionInputs == SessionIds
OpInputs      == OpIds
ImageInputs   == {Null} \cup ImageIds
PositionInputs == {1, 2}
\* image ids the payloads of a drawing session name
PlacedImages  == {1, 2}
\* rotations a payload carries: none, or one
RotationInputs == {Null, 1}
\* image_path values an add_image payload carries: none, the path of the
\* session's image, and a path under which nothing is stored
PathInputs    == {Null, 1, 2}
\* page indices a payload carries: the pages of the document, one below the
\* range and one above it
PageInputs    == (0 - 1)..MaxPages
FileInputs    == {Null} \cup FileIds

VARIABLES
    now,        \* the clock, datetime.utcnow()
    files,      \* table files: set of file ids
    uploads,    \* storage/uploads: ids of the files whose source PDF is on disk
    sessions,   \* table edit_sessions: session id -> row
    ops,        \* table edit_operations: set of rows
    images,     \* table session_images: set of rows
    tempFiles,  \* storage/temp/<session>: image files on disk, [sid, img]
    edited,     \* storage/edited: session id -> output file [written, size, pages, mtime]
    req,        \* in-flight requests: slot -> position and locals
    nFiles, nSessions, nOps, nImages,   \* ids handed out so far
    hwm,        \* history: highest sequence number ever stored, per session
    completions,\* history: successful commits, per session
    failures,   \* history: sessions a commit of which failed in compositing
    sweep       \* the cleanup task: its position and locals

vars == <<now, files, uploads, sessions, ops, images, tempFiles, edited, req,
          nFiles, nSessions, nOps, nImages, hwm, completions, failures, sweep>>

db     == <<files, sessions, ops, images>>
disk   == <<uploads, tempFiles, edited>>
ids    == <<nFiles, nSessions, nOps, nImages>>
hist   == <<hwm, completions, failures>>

\* the cleanup task when it is not running; runs counts the sweeps started
SweepIdle == [pc |-> "idle", cutoff_time |-> NoTime, expired_sessions |-> <<>>,
              deleted |-> {}, born |-> 0, runs |-> 0, active_session_ids |-> {}]

\* no POST made yet
NoResponse == [kind |-> "none", status_code |-> Null]

Idle == [pc |-> "idle", sid |-> Null, fid |-> Null, next_order |-> 0,
         type |-> "", image_id |-> Null, image_path |-> Null, position |-> 0,
         page |-> 0, rotation |-> Null,
         attempt |-> 0, slept |-> <<>>, returned |-> FALSE, success |-> FALSE,
         response |-> NoResponse]

Init ==
    /\ now = 0
    /\ files = {} /\ uploads = {}
    /\ sessions = <<>>
    /\ ops = {} /\ images = {}
    /\ tempFiles = {} /\ edited = <<>>
    /\ req = [r \in Requests |-> Idle]
    /\ nFiles = 0 /\ nSessions = 0 /\ nOps = 0 /\ nImages = 0
    /\ hwm = [s \in SessionIds |-> 0]
    /\ completions = [s \in SessionIds |-> 0]
    /\ failures = {}
    /\ sweep = SweepIdle


\* ------------------------------------------------------------ helpers
AllIdle == \A q \in Requests : req[q].pc = "idle"

\* a multi-step handler may start in slot r: the lowest free slot (the slots
\* are interchangeable)
CanStart(r) ==
    /\ req[r].pc = "idle"
    /\ \A q \in Requests : q < r => req[q].pc # "idle"

SessionOps(s) == {o \in ops : o.session_id = s}

Max(S) == CHOOSE x \in S : \A y \in S : y <= x

Remove(f, D) == [x \in DOMAIN f \ D |-> f[x]]

\* ------------------------------------------------------ the clock
Tick ==
    /\ now < MaxTime
    /\ now' = now + 1
    /\ UNCHANGED <<db, disk, req, ids, hist, sweep>>

\* ------------------------------------------------------ files API
upload_file(valid) ==
    /\ nFiles < MaxFiles
    /\ IF valid
       THEN /\ nFiles' = nFiles + 1
            /\ files' = files \cup {nFiles + 1}
            /\ uploads' = uploads \cup {nFiles + 1}
       ELSE UNCHANGED <<nFiles, files, uploads>>
    /\ UNCHANGED <<now, sessions, ops, images, tempFiles, edited, req,
                   nSessions, nOps, nImages, hist, sweep>>

\* ------------------------------------------------------ sessions API
calculate_expiry(hours) == now + hours

NewSession(fid, hours, can_edit, callback) ==
    [file_id |-> fid, session_token |-> nSessions + 1, status |-> "active",
     expires_at |-> calculate_expiry(hours), completed_at |-> NoTime,
     edited_file_path |-> Null, edited_file_size |-> Null,
     can_edit |-> can_edit, callback_url |-> callback, callback_status |-> "none"]

create_session(fid, hours, can_edit, callback) ==
    /\ nSessions < MaxSessions
    /\ IF fid \notin files
       THEN UNCHANGED <<sessions, nSessions>>
       ELSE /\ sessions' = sessions @@
                  ((nSessions + 1) :> NewSession(fid, hours, can_edit, callback))
            /\ nSessions' = nSessions + 1
    /\ UNCHANGED <<now, files, uploads, ops, images, tempFiles, edited, req,
                   nFiles, nOps, nImages, hist, sweep>>

\* ------------------------------------------------- verify_session_token
\* the select without its status filter
ActiveRow_any_status(sid, tok) ==
    /\ sid \in DOMAIN sessions
    /\ sessions[sid].session_token = tok

\* the row selected by id, token and status == "active", if any
ActiveRow(sid, tok) ==
    /\ sid \in DOMAIN sessions
    /\ sessions[sid].session_token = tok
    /\ sessions[sid].status = "active"

\* the HTTP outcome of verify_session_token: 200 stands for "returns the row"
verify_code(sid, tok) ==
    IF ~ActiveRow(sid, tok) THEN 404
    ELSE IF sessions[sid].expires_at < now THEN 410
    ELSE 200

\* a lazy check that stamps the row at every detection, whatever its status
verify_sessions_restamp(sid, tok) ==
    IF ActiveRow_any_status(sid, tok) /\ sessions[sid].expires_at < now
    THEN [sessions EXCEPT ![sid].status = "expired", ![sid].completed_at = now]
    ELSE sessions

\* the table after verify_session_token: an overdue row is persisted as expired
verify_sessions(sid, tok) ==
    IF verify_code(sid, tok) = 410
    THEN [sessions EXCEPT ![sid].status = "expired"]
    ELSE sessions

\* permissions.get("can_edit", True)
CanEdit(sid) == sessions[sid].can_edit

\* the answer of the can_edit gate that follows verify_session_token in every
\* handler that has one: 200 stands for "goes on"
gate_code(sid, tok) ==
    IF verify_code(sid, tok) # 200 THEN verify_code(sid, tok)
    ELSE IF ~CanEdit(sid) THEN 403
    ELSE 200

\* A handler's first statements: a rejection answers at once and leaves only
\* what verify_session_token persisted; otherwise the request goes on at pc.
Enter(r, code, sid, tok, pc) ==
    /\ CanStart(r)
    /\ sessions' = verify_sessions(sid, tok)
    /\ IF code = 200
       THEN req' = [req EXCEPT ![r] = [Idle EXCEPT !.pc = pc, !.sid = sid,
                                            !.fid = sessions[sid].file_id]]
       ELSE UNCHANGED req
    /\ UNCHANGED <<now, files, ops, images, disk, ids, hist, sweep>>

\* ---------------------------------------------------- operations API
\* the select without its where clause: the maximum over every session
max_order_all_sessions(s) ==
    IF ops = {} THEN Null
    ELSE Max({o.operation_order : o \in ops})

\* select(func.max(EditOperation.operation_order)).where(session_id == s)
max_order(s) ==
    IF SessionOps(s) = {} THEN Null
    ELSE Max({o.operation_order : o \in SessionOps(s)})

\* the smallest number the session's log does not hold (gaps are filled)
next_order_first_free(s) ==
    CHOOSE n \in 1..(MaxOps + 1) :
        /\ \A o \in SessionOps(s) : o.operation_order # n
        /\ \A m \in 1..(n - 1) : \E o \in SessionOps(s) : o.operation_order = m

\* next_order = (max_order or 0) + 1
next_order(s) == (IF max_order(s) = Null THEN 0 ELSE max_order(s)) + 1

create_operation_verify(r, sid, tok) ==
    Enter(r, gate_code(sid, tok), sid, tok, "op_read")

\* the image row an add_image payload names, if it is an image of the session
SessionImageRow(sid, image_id) ==
    {i \in images : i.id = image_id /\ i.session_id = sid}

\* operation_data after the image lookup: the stored path replaces the sent one
resolved_path(sid, type, image_id, image_path) ==
    IF type = "add_image" /\ image_id # Null /\ SessionImageRow(sid, image_id) # {}
    THEN (CHOOSE i \in SessionImageRow(sid, image_id) : TRUE).file_path
    ELSE image_path

\* select max(operation_order), validate the type, look the image up
create_operation_read(r, type, image_id, image_path, position, page, rotation) ==
    /\ req[r].pc = "op_read"
    /\ IF type \notin valid_types
       THEN req' = [req EXCEPT ![r] = Idle]
       ELSE req' = [req EXCEPT ![r].pc = "op_insert",
                               ![r].next_order = next_order(req[r].sid),
                               ![r].type = type,
                               ![r].image_id = image_id,
                               ![r].position = position,
                               ![r].page = page,
                               ![r].rotation = rotation,
                               ![r].image_path =
                                   resolved_path(req[r].sid, type, image_id, image_path)]
    /\ UNCHANGED <<now, db, disk, ids, hist, sweep>>

\* the table without its unique constraint
insert_allowed_no_unique(sid, order) == sid \in DOMAIN sessions

\* UniqueConstraint('session_id', 'operation_order') and the foreign key on
\* session_id: whether the INSERT of (sid, order) is accepted
insert_allowed(sid, order) ==
    /\ sid \in DOMAIN sessions
    /\ \A o \in ops : ~(o.session_id = sid /\ o.operation_order = order)

NewOperation(r) ==
    [id |-> nOps + 1, session_id |-> req[r].sid,
     operation_order |-> req[r].next_order, operation_type |-> req[r].type,
     image_id |-> req[r].image_id, image_path |-> req[r].image_path,
     position |-> req[r].position, page |-> req[r].page,
     rotation |-> req[r].rotation]

\* db.add(db_operation); await db.commit()
create_operation_insert(r) ==
    /\ req[r].pc = "op_insert"
    /\ nOps < MaxOps
    /\ IF insert_allowed(req[r].sid, req[r].next_order)
       THEN /\ ops' = ops \cup {NewOperation(r)}
            /\ nOps' = nOps + 1
            /\ hwm' = [hwm EXCEPT ![req[r].sid] =
                          IF req[r].next_order > @ THEN req[r].next_order ELSE @]
       ELSE UNCHANGED <<ops, nOps, hwm>>
    /\ req' = [req EXCEPT ![r] = Idle]
    /\ UNCHANGED <<now, files, sessions, images, disk, nFiles, nSessions, nImages,
                   completions, failures, sweep>>

list_operations(sid, tok) ==
    /\ sessions' = verify_sessions(sid, tok)
    /\ UNCHANGED <<now, files, ops, images, disk, req, ids, hist, sweep>>

delete_operation_verify(r, sid, tok) ==
    Enter(r, gate_code(sid, tok), sid, tok, "op_delete")

\* the operation selected by id alone
OperationRow_any_session(sid, operation_id) ==
    {o \in ops : o.id = operation_id}

\* select(EditOperation).where(id == operation_id, session_id == session_id)
OperationRow(sid, operation_id) ==
    {o \in ops : o.id = operation_id /\ o.session_id = sid}

\* the answer of delete_operation once past the gate: 404 if no row is selected
delete_operation_code(sid, operation_id) ==
    IF OperationRow(sid, operation_id) = {} THEN 404 ELSE 204

\* select the operation by id and session (404 if none), delete it, commit
delete_operation_delete(r, operation_id) ==
    /\ req[r].pc = "op_delete"
    /\ ops' = ops \ OperationRow(req[r].sid, operation_id)
    /\ req' = [req EXCEPT ![r] = Idle]
    /\ UNCHANGED <<now, files, sessions, images, disk, ids, hist, sweep>>

clear_all_operations_verify(r, sid, tok) ==
    Enter(r, gate_code(sid, tok), sid, tok, "op_clear")

\* select every operation of the session, delete each, commit
clear_all_operations_delete(r) ==
    /\ req[r].pc = "op_clear"
    /\ ops' = ops \ SessionOps(req[r].sid)
    /\ req' = [req EXCEPT ![r] = Idle]
    /\ UNCHANGED <<now, files, sessions, images, disk, ids, hist, sweep>>

\* -------------------------------------------------------- images API
upload_image_verify(r, sid, tok) ==
    Enter(r, gate_code(sid, tok), sid, tok, "img_save")

\* flush the row (foreign key on session_id), save the file, validate it, commit;
\* an image that does not validate has its file deleted and its row rolled back
upload_image_save(r, valid) ==
    /\ req[r].pc = "img_save"
    /\ nImages < MaxImages
    /\ IF valid /\ req[r].sid \in DOMAIN sessions
       THEN /\ images' = images \cup {[id |-> nImages + 1, session_id |-> req[r].sid,
                                       file_path |-> nImages + 1]}
            /\ tempFiles' = tempFiles \cup {[sid |-> req[r].sid, img |-> nImages + 1]}
            /\ nImages' = nImages + 1
       ELSE UNCHANGED <<images, tempFiles, nImages>>
    /\ req' = [req EXCEPT ![r] = Idle]
    /\ UNCHANGED <<now, files, sessions, ops, uploads, edited, nFiles, nSessions, nOps,
                   hist, sweep>>

get_image(sid, image_id, tok) ==
    /\ sessions' = verify_sessions(sid, tok)
    /\ UNCHANGED <<now, files, ops, images, disk, req, ids, hist, sweep>>

delete_image_verify(r, sid, tok) ==
    Enter(r, gate_code(sid, tok), sid, tok, "img_delete")

\* select the image by id and session (404 if none), delete its file and its row
delete_image_delete(r, image_id) ==
    /\ req[r].pc = "img_delete"
    /\ LET found == SessionImageRow(req[r].sid, image_id) IN
       /\ images' = images \ found
       /\ tempFiles' = {f \in tempFiles : \A i \in found : f.img # i.file_path}
    /\ req' = [req EXCEPT ![r] = Idle]
    /\ UNCHANGED <<now, files, sessions, ops, uploads, edited, ids, hist, sweep>>

\* ------------------------------------------------------ sessions API
get_session_info(sid, fid, tok) ==
    /\ sessions' = verify_sessions(sid, tok)
    /\ UNCHANGED <<now, files, ops, images, disk, req, ids, hist, sweep>>

\* the row selected by id and token alone
TokenRow(sid, tok) ==
    /\ sid \in DOMAIN sessions
    /\ sessions[sid].session_token = tok

info_direct_code(sid, tok) ==
    IF ~TokenRow(sid, tok) THEN 404
    ELSE IF sessions[sid].expires_at < now THEN 410
    ELSE 200

get_session_info_direct(sid, tok) ==
    /\ sessions' = IF info_direct_code(sid, tok) = 410
                   THEN [sessions EXCEPT ![sid].status = "expired"]
                   ELSE sessions
    /\ UNCHANGED <<now, files, ops, images, disk, req, ids, hist, sweep>>

\* commit_session: verify_session_token, then the file id of the path
commit_code(sid, fid, tok) ==
    IF verify_code(sid, tok) # 200 THEN verify_code(sid, tok)
    ELSE IF sessions[sid].file_id # fid THEN 400
    ELSE 200

commit_session_verify(r, sid, fid, tok) ==
    Enter(r, commit_code(sid, fid, tok), sid, tok, "composite")

\* _create_page_overlay keeps, per page and image id, the payload of the latest
\* add_image seen so far; a move_image writes its position into that payload:
\* the add_image operation a move_image m lands on, if any
MoveTarget(m) ==
    {a \in SessionOps(m.session_id) :
        /\ a.operation_type = "add_image"
        /\ a.image_id = m.image_id
        /\ a.page = m.page
        /\ a.operation_order < m.operation_order
        /\ \A b \in SessionOps(m.session_id) :
              (b.operation_type = "add_image" /\ b.image_id = m.image_id
                 /\ b.page = m.page
                 /\ b.operation_order < m.operation_order)
              => b.operation_order <= a.operation_order}

\* the move_image operations whose position is written into a's payload
MovesOnto(a) ==
    {m \in SessionOps(a.session_id) :
        /\ m.operation_type = "move_image"
        /\ m.image_id # Null
        /\ a \in MoveTarget(m)}

\* the position a's payload holds, in the memory of the commit request, after
\* the overlay was built: that of the last move_image landing on it
reconciled_position(a) ==
    IF MovesOnto(a) = {} THEN a.position
    ELSE (CHOOSE m \in MovesOnto(a) :
             \A n \in MovesOnto(a) : n.operation_order <= m.operation_order).position

\* the operations of the session as the commit request holds them in memory
\* after compositing
reconciled(sid) ==
    {[o EXCEPT !.position = reconciled_position(o)] : o \in SessionOps(sid)}

\* a flush that writes the payloads changed in memory back to their rows
persisted_operations_tracked(sid) ==
    (ops \ SessionOps(sid)) \cup reconciled(sid)

\* the table edit_operations after the commit request's db.commit(): the
\* operation_data column is a plain JSONB column, a change made inside the
\* loaded dict is not seen by the unit of work and no UPDATE is issued
persisted_operations(sid) == ops

\* the pages of the source PDF, in order (reader.pages)
SourcePages == [i \in 1..MaxPages |-> i - 1]

\* the operations commit_session selects: those of the session, ordered by
\* operation_order
ordered_operations(sid) ==
    LET S == SessionOps(sid) IN
    [i \in 1..Cardinality(S) |->
        CHOOSE o \in S :
            Cardinality({q \in S : q.operation_order < o.operation_order}) = i - 1]

\* a grouping that puts an operation whose page is outside the document on the
\* nearest page of the document
ops_by_page_clamped(sid, p) ==
    SelectSeq(ordered_operations(sid),
              LAMBDA o : /\ o.operation_type \in {"add_image", "move_image"}
                         /\ (IF o.page < 0 THEN 0
                              ELSE IF o.page >= Len(SourcePages)
                                   THEN Len(SourcePages) - 1
                              ELSE o.page) = p)

\* ops_by_page[p]: the operations of the two kinds apply_operations_to_pdf
\* supports whose page is p, in order; an operation whose page is outside the
\* document is skipped
ops_by_page(sid, p) ==
    SelectSeq(ordered_operations(sid),
              LAMBDA o : /\ o.operation_type \in {"add_image", "move_image"}
                         /\ o.page >= 0 /\ o.page < Len(SourcePages)
                         /\ o.page = p)

\* the payload of an add_image as the overlay keeps it
placement(op) ==
    [image_path |-> op.image_path, position |-> op.position,
     rotation |-> op.rotation]

\* an add_image whose position is written into every entry of the map
added_to_all(placed, op) ==
    (op.image_id :> placement(op)) @@
        [i \in DOMAIN placed |-> [placed[i] EXCEPT !.position = op.position]]

\* the add_image branch, image_ops[img_id] = data: the identifier's entry is
\* set, or replaced, and the other entries stay
added(placed, op) == (op.image_id :> placement(op)) @@ placed

\* a move_image that creates the placement it does not find
moved_or_added(placed, op) ==
    IF op.image_id \in DOMAIN placed
    THEN [placed EXCEPT ![op.image_id].position = op.position]
    ELSE (op.image_id :> placement(op)) @@ placed

\* a move_image that moves every image of the page
moved_all_images(placed, op) ==
    [i \in DOMAIN placed |-> [placed[i] EXCEPT !.position = op.position]]

\* the move_image branch: the position becomes new_position if the payload has
\* one, the rotation becomes the payload's if it has one; an identifier that
\* was not added is skipped
moved(placed, op) ==
    IF op.image_id \in DOMAIN placed
    THEN [placed EXCEPT
            ![op.image_id].position = IF op.position # Null THEN op.position ELSE @,
            ![op.image_id].rotation = IF op.rotation # Null THEN op.rotation ELSE @]
    ELSE placed

\* image_ops of _create_page_overlay after the loop over the page's operations:
\* image id -> payload to draw
RECURSIVE image_ops(_)
image_ops(operations) ==
    IF operations = <<>> THEN <<>>
    ELSE LET n == Len(operations)
             op == operations[n]
             placed == image_ops(SubSeq(operations, 1, n - 1))
         IN IF op.image_id = Null THEN placed
            ELSE IF op.operation_type = "add_image"
                 THEN added(placed, op)
            ELSE IF op.operation_type = "move_image" THEN moved(placed, op)
            ELSE placed

\* the keys of image_ops in the order image_ops.values() yields them: a dict
\* keeps a key where it was first inserted
RECURSIVE image_keys(_)
image_keys(operations) ==
    IF operations = <<>> THEN <<>>
    ELSE LET n == Len(operations)
             op == operations[n]
             keys == image_keys(SubSeq(operations, 1, n - 1))
         IN IF /\ op.image_id # Null
               /\ op.operation_type = "add_image"
               /\ \A k \in 1..Len(keys) : keys[k] # op.image_id
            THEN Append(keys, op.image_id)
            ELSE keys

\* ImageReader(img_path) opens the file: whether a file is stored under path
on_disk(T, path) == \E f \in T : f.img = path

\* what the loop over image_ops.values() does with one payload: "skipped" (no
\* image_path: continue), "drawn", or "failed" (ImageReader raises inside the
\* try, after c.saveState() and c.translate(), and the except clause prints)
draw_result(T, img_data) ==
    IF img_data.image_path = Null THEN "skipped"
    ELSE IF on_disk(T, img_data.image_path) THEN "drawn"
    ELSE "failed"

\* the canvas states saved and not restored when the k-th payload is reached:
\* c.restoreState() is the last statement of the try block, so a draw that
\* failed has left its saveState, its translate to the centre of its box and
\* its rotate in force
open_states(placed, keys, T, k) ==
    LET failed == SelectSeq(SubSeq(keys, 1, k - 1),
                            LAMBDA i : draw_result(T, placed[i]) = "failed")
    IN [j \in 1..Len(failed) |->
           [position |-> placed[failed[j]].position,
            rotation |-> placed[failed[j]].rotation]]

\* the draw calls of _create_page_overlay in order: each payload with what
\* became of it and the canvas states open around it (frame)
draws(placed, keys, T) ==
    [k \in 1..Len(keys) |->
        [image_id |-> keys[k],
         image_path |-> placed[keys[k]].image_path,
         position |-> placed[keys[k]].position,
         rotation |-> placed[keys[k]].rotation,
         result |-> draw_result(T, placed[keys[k]]),
         frame |-> open_states(placed, keys, T, k)]]

\* whether page.merge_page runs: _create_page_overlay returns None only when
\* image_ops is empty; the saved canvas has a page if anything was written to
\* it, and a draw that reached c.saveState() has written to it
overlay_merged(drawn) ==
    \E k \in 1..Len(drawn) : drawn[k].result # "skipped"

\* what apply_operations_to_pdf makes of one page of the source
output_page(sid, pg) ==
    LET operations == ops_by_page(sid, pg)
        drawn == draws(image_ops(operations), image_keys(operations), tempFiles)
    IN [page |-> pg,
        overlay |-> image_ops(operations),
        drawn |-> drawn,
        merged |-> overlay_merged(drawn)]

\* an output that holds the pages that got an overlay and no other
output_pages_overlaid_only(sid) ==
    SelectSeq([i \in 1..Len(SourcePages) |-> output_page(sid, SourcePages[i])],
              LAMBDA g : g.overlay # <<>>)

\* the pages apply_operations_to_pdf writes: every page of the source in
\* order, merged with its overlay if it has operations and image_ops is not
\* empty (overlay <<>> stands for the page as it is)
output_pages(sid) ==
    [i \in 1..Len(SourcePages) |-> output_page(sid, SourcePages[i])]

\* a compositing that does not need the stored source
composite_outcome_without_source(fid, io) ==
    IF io = "read_fail" THEN "unread"
    ELSE IF io = "write_fail" THEN "unwritten"
    ELSE "written"

\* what PDFService.apply_operations_to_pdf does, given what the disk lets it do:
\* "unread" (the source cannot be read, nothing is written), "unwritten" (the
\* output was opened for writing and the write failed) or "written"
composite_outcome(fid, io) ==
    IF fid \notin uploads \/ io = "read_fail" THEN "unread"
    ELSE IF io = "write_fail" THEN "unwritten"
    ELSE "written"

\* the size of the output for the operations the commit selected
OutputSize(sid) == 1 + Cardinality(SessionOps(sid))

\* the output file after apply_operations_to_pdf: open(output, "wb") truncates
edited_after(sid, outcome) ==
    IF outcome = "unread" THEN edited
    ELSE IF outcome = "unwritten"
    THEN Remove(edited, {sid}) @@
             (sid :> [written |-> "partial", size |-> 0, pages |-> <<>>,
                      mtime |-> now])
    ELSE Remove(edited, {sid}) @@
             (sid :> [written |-> "full", size |-> OutputSize(sid),
                      pages |-> output_pages(sid), mtime |-> now])

\* StorageService.get_file_size
get_file_size(disk_edited, path) ==
    IF path \in DOMAIN disk_edited THEN disk_edited[path].size ELSE 0

\* a commit that records the completion whatever the compositing did
composite_succeeds_always(fid, io) == TRUE

\* whether commit_session goes on to record the completion
composite_succeeds(fid, io) == composite_outcome(fid, io) = "written"

\* the row an UPDATE of session sid writes to must exist (StaleDataError if not)
RowExists(sid) == sid \in DOMAIN sessions

\* select the file (404 if none) and the operations, composite, record completion
commit_session_composite(r, io) ==
    /\ req[r].pc = "composite"
    /\ LET sid == req[r].sid
           fid == req[r].fid
           out == IF fid \in files THEN edited_after(sid, composite_outcome(fid, io))
                  ELSE edited
           done == fid \in files /\ composite_succeeds(fid, io) /\ RowExists(sid)
       IN
       /\ edited' = out
       /\ failures' = IF fid \in files /\ composite_outcome(fid, io) # "written"
                      THEN failures \cup {sid} ELSE failures
       /\ IF done
          THEN /\ sessions' = [sessions EXCEPT
                     ![sid].status = "completed",
                     ![sid].completed_at = now,
                     ![sid].edited_file_path = sid,
                     ![sid].edited_file_size = get_file_size(out, sid)]
               /\ completions' = [completions EXCEPT ![sid] = @ + 1]
               /\ ops' = persisted_operations(sid)
               /\ req' = [req EXCEPT ![r].pc =
                             IF sessions[sid].callback_url THEN "webhook_pending"
                             ELSE "finish"]
          ELSE /\ UNCHANGED <<sessions, completions, ops>>
               /\ req' = [req EXCEPT ![r] = Idle]
    /\ UNCHANGED <<now, files, images, uploads, tempFiles, ids, hwm, sweep>>

\* db_session.callback_status = "pending"; await db.commit()
commit_session_pending(r) ==
    /\ req[r].pc = "webhook_pending"
    /\ IF RowExists(req[r].sid)
       THEN /\ sessions' = [sessions EXCEPT ![req[r].sid].callback_status = "pending"]
            /\ req' = [req EXCEPT ![r].pc = "webhook_send"]
       ELSE /\ UNCHANGED sessions
            /\ req' = [req EXCEPT ![r] = Idle]
    /\ UNCHANGED <<now, files, ops, images, disk, ids, hist, sweep>>

\* a loop that runs one attempt more
in_range_inclusive(attempt) == attempt <= WEBHOOK_RETRY_ATTEMPTS

\* for attempt in range(max_retries)
in_range(attempt) == attempt < WEBHOOK_RETRY_ATTEMPTS

\* if attempt < max_retries - 1: the failed attempt is followed by a wait
sleeps_after(attempt) == attempt < WEBHOOK_RETRY_ATTEMPTS - 1

\* a wait of one second whatever the attempt
backoff_constant(attempt) == 1

\* asyncio.sleep(2 ** attempt)
backoff(attempt) == 2 ^ attempt

\* what one POST to the callback URL meets: an HTTP status received within the
\* timeout, no answer within the timeout, or a network error
ResponseInputs ==
    {[kind |-> "status", status_code |-> c] :
        c \in {200, 201, 202, 203, 204, 299, 301, 404, 500}}
      \cup {[kind |-> "timeout", status_code |-> Null],
            [kind |-> "network_error", status_code |-> Null]}

\* send_webhook: response.status_code in [200, 201, 202, 204]; an exception
\* (timeout, network error) is caught and answers False
send_webhook(response) ==
    /\ response.kind = "status"
    /\ response.status_code \in {200, 201, 202, 204}

\* one iteration of retry_webhook's loop: send_webhook meets response; on
\* success the loop returns True, after a failure it sleeps unless this was the
\* last attempt, and it returns False when the range is exhausted
retry_webhook_attempt(r, response) ==
    /\ req[r].pc = "webhook_send"
    /\ ~req[r].returned
    /\ in_range(req[r].attempt)
    /\ LET attempt == req[r].attempt
           ok == send_webhook(response) IN
       req' = [req EXCEPT
                 ![r].response = response,
                 ![r].attempt = attempt + 1,
                 ![r].slept = IF ~ok /\ sleeps_after(attempt)
                              THEN Append(@, backoff(attempt)) ELSE @,
                 ![r].returned = ok \/ ~in_range(attempt + 1),
                 ![r].success = ok]
    /\ UNCHANGED <<now, db, disk, ids, hist, sweep>>

\* a delivery failure that takes the completion back
callback_row_escalates(row, success) ==
    IF success THEN [row EXCEPT !.callback_status = "success"]
    ELSE [row EXCEPT !.callback_status = "failed", !.status = "active",
                     !.edited_file_path = Null]

\* db_session.callback_status = "success" if success else "failed"
callback_row(row, success) ==
    [row EXCEPT !.callback_status = IF success THEN "success" ELSE "failed"]

\* success = await retry_webhook(...); callback_status = success or failed
commit_session_webhook(r, success) ==
    /\ req[r].pc = "webhook_send"
    /\ IF RowExists(req[r].sid)
       THEN /\ sessions' = [sessions EXCEPT ![req[r].sid] = callback_row(@, success)]
            /\ req' = [req EXCEPT ![r].pc = "finish"]
       ELSE /\ UNCHANGED sessions
            /\ req' = [req EXCEPT ![r] = Idle]
    /\ UNCHANGED <<now, files, ops, images, disk, ids, hist, sweep>>

\* delete the source file if it exists, delete the session's temp directory
commit_session_finish(r) ==
    /\ req[r].pc = "finish"
    /\ uploads' = uploads \ {req[r].fid}
    /\ tempFiles' = {f \in tempFiles : f.sid # req[r].sid}
    /\ req' = [req EXCEPT ![r] = Idle]
    /\ UNCHANGED <<now, db, edited, ids, hist, sweep>>

download_code(sid, tok) ==
    IF ~TokenRow(sid, tok) THEN 404
    ELSE IF sessions[sid].status # "completed" THEN 400
    ELSE IF sessions[sid].edited_file_path = Null
            \/ sessions[sid].edited_file_path \notin DOMAIN edited THEN 404
    ELSE 200

\* a download that runs the lazy expiry check on the row it selected
download_sessions_lazy_expiry(sid, tok) ==
    IF TokenRow(sid, tok) /\ sessions[sid].status = "active"
          /\ sessions[sid].expires_at < now
    THEN [sessions EXCEPT ![sid].status = "expired"]
    ELSE sessions

\* the table after download_edited_file: the handler selects the row and the
\* file, assigns no attribute and never commits
download_sessions(sid, tok) == sessions

download_edited_file(sid, tok) ==
    /\ download_code(sid, tok) \in {200, 400, 404}
    /\ sessions' = download_sessions(sid, tok)
    /\ UNCHANGED <<now, files, ops, images, disk, req, ids, hist, sweep>>

\* ------------------------------------------------------------ cleanup
\* a select that takes the expired sessions alone
cleanup_selected_expired_only ==
    {s \in DOMAIN sessions :
        /\ sessions[s].status = "expired"
        /\ sessions[s].expires_at < now - GracePeriodHours}

\* the sessions cleanup_expired_sessions selects
cleanup_selected ==
    {s \in DOMAIN sessions :
        /\ sessions[s].status \in {"expired", "completed"}
        /\ sessions[s].expires_at < now - GracePeriodHours}

\* delete each selected session's output and temp directory, then its row; the
\* rows of its operations and images go with it (cascade)
cleanup_expired_sessions ==
    /\ LET P == cleanup_selected IN
       /\ edited' = Remove(edited, {sessions[s].edited_file_path : s \in P})
       /\ tempFiles' = {f \in tempFiles : f.sid \notin P}
       /\ sessions' = Remove(sessions, P)
       /\ ops' = {o \in ops : o.session_id \notin P}
       /\ images' = {i \in images : i.session_id \notin P}
    /\ UNCHANGED <<now, files, uploads, req, ids, hist, sweep>>

\* The sweep step by step, as other work interleaves with it: it computes the
\* cutoff and selects, deletes the files of each selected session and marks
\* its row for deletion, then commits the deletions.

\* a cutoff without the grace period
cutoff_time_no_grace(t) == t

\* cutoff_time = datetime.utcnow() - grace_period
cutoff_time(t) == t - GracePeriodHours

\* the rows the select returns for a cutoff: session id -> row as loaded
expired_sessions(cutoff) ==
    [s \in {x \in DOMAIN sessions :
                /\ sessions[x].status \in {"expired", "completed"}
                /\ sessions[x].expires_at < cutoff} |-> sessions[s]]

\* StorageService.delete_file: removes the file if it exists, no error if not
delete_file(E, path) ==
    IF path \in DOMAIN E THEN Remove(E, {path}) ELSE E

\* StorageService.delete_session_temp_dir: removes the directory if it exists
delete_session_temp_dir(T, sid) == {f \in T : f.sid # sid}

cleanup_select ==
    /\ sweep.pc = "idle"
    /\ sweep.runs < MaxSweeps
    /\ sweep' = [pc |-> "loop", cutoff_time |-> cutoff_time(now),
                 expired_sessions |-> expired_sessions(cutoff_time(now)),
                 deleted |-> {}, born |-> nSessions, runs |-> sweep.runs + 1,
                 active_session_ids |-> {}]
    /\ UNCHANGED <<now, db, disk, req, ids, hist>>

\* one iteration of the loop: the output file if the row records one, the temp
\* directory, db.delete(session)
cleanup_delete(s) ==
    /\ sweep.pc = "loop"
    /\ s \in DOMAIN sweep.expired_sessions
    /\ LET session == sweep.expired_sessions[s] IN
       /\ edited' = IF session.edited_file_path # Null
                     THEN delete_file(edited, session.edited_file_path)
                     ELSE edited
       /\ tempFiles' = delete_session_temp_dir(tempFiles, s)
    /\ sweep' = [sweep EXCEPT !.expired_sessions = Remove(@, {s}),
                              !.deleted = @ \cup {s}]
    /\ UNCHANGED <<now, db, uploads, req, ids, hist>>

\* await db.commit(): the rows marked for deletion go, and with each the rows
\* of its operations and images (cascade)
cleanup_commit ==
    /\ sweep.pc = "loop"
    /\ DOMAIN sweep.expired_sessions = {}
    /\ sessions' = Remove(sessions, sweep.deleted)
    /\ ops' = {o \in ops : o.session_id \notin sweep.deleted}
    /\ images' = {i \in images : i.session_id \notin sweep.deleted}
    /\ sweep' = [SweepIdle EXCEPT !.runs = sweep.runs]
    /\ UNCHANGED <<now, files, disk, req, ids, hist>>

\* the process stops while the sweep runs: the files deleted so far are gone,
\* the transaction is never committed
cleanup_interrupt ==
    /\ sweep.pc = "loop"
    /\ sweep' = [SweepIdle EXCEPT !.runs = sweep.runs]
    /\ UNCHANGED <<now, db, disk, req, ids, hist>>

\* cleanup_orphaned_files, as other work interleaves with it: the select of
\* the session ids is awaited, the walk over the directories follows it.

\* the directories and files the walk takes for orphans: those whose session
\* id is not among the ids selected
orphans(selected) == {s \in SessionIds : s \notin selected}

\* result = await db.execute(select(EditSession.id))
cleanup_orphaned_files_select ==
    /\ sweep.pc = "idle"
    /\ sweep.runs < MaxSweeps
    /\ sweep' = [SweepIdle EXCEPT !.pc = "walk",
                                  !.active_session_ids = DOMAIN sessions,
                                  !.born = nSessions,
                                  !.runs = sweep.runs + 1]
    /\ UNCHANGED <<now, db, disk, req, ids, hist>>

\* the walk: every directory of storage/temp named after an orphan is removed;
\* every file of storage/edited older than OrphanAgeHours whose name starts
\* with an orphan's id is removed
cleanup_orphaned_files_walk ==
    /\ sweep.pc = "walk"
    /\ LET gone == orphans(sweep.active_session_ids) IN
       /\ tempFiles' = {f \in tempFiles : f.sid \notin gone}
       /\ edited' = Remove(edited, {s \in DOMAIN edited :
                                       /\ edited[s].mtime < now - OrphanAgeHours
                                       /\ s \in gone})
    /\ sweep' = [SweepIdle EXCEPT !.runs = sweep.runs]
    /\ UNCHANGED <<now, db, uploads, req, ids, hist>>

IoInputs == {"ok", "read_fail", "write_fail"}

\* ------------------------------------------------- next-state relations
\* the environment: the clock, the scheduler's sweep, file upload, session opening
Environment ==
    \/ Tick
    \/ cleanup_expired_sessions
    \/ \E valid \in BOOLEAN : upload_file(valid)

\* a caller opens one of the first n sessions, with or without a callback URL
OpenSession(n, Callbacks) ==
    /\ nSessions < n
    /\ \E fid \in FileInputs, h \in ExpiryHours, e \in BOOLEAN, c \in Callbacks :
          create_session(fid, h, e, c)

\* requests arriving: each handler's first step, admitted when Ready holds,
\* on the session ids S
LogArrivals(Ready, S) ==
    \/ \E r \in Requests, s \in S, t \in TokensFor(S) :
          Ready /\ create_operation_verify(r, s, t)
    \/ \E r \in Requests, s \in S, t \in TokensFor(S) :
          Ready /\ delete_operation_verify(r, s, t)
    \/ \E r \in Requests, s \in S, t \in TokensFor(S) :
          Ready /\ clear_all_operations_verify(r, s, t)
    \/ \E s \in S, t \in TokensFor(S) :
          Ready /\ list_operations(s, t)

ImageArrivals(Ready, S) ==
    \/ \E r \in Requests, s \in S, t \in TokensFor(S) :
          Ready /\ upload_image_verify(r, s, t)
    \/ \E r \in Requests, s \in S, t \in TokensFor(S) :
          Ready /\ delete_image_verify(r, s, t)
    \/ \E s \in S, i \in ImageInputs, t \in TokensFor(S) :
          Ready /\ get_image(s, i, t)

SessionArrivals(Ready, S) ==
    \/ \E s \in S, f \in FileInputs, t \in TokensFor(S) :
          Ready /\ get_session_info(s, f, t)
    \/ \E s \in S, t \in TokensFor(S) :
          Ready /\ get_session_info_direct(s, t)
    \/ \E r \in Requests, s \in S, f \in FileInputs, t \in TokensFor(S) :
          Ready /\ commit_session_verify(r, s, f, t)
    \/ \E s \in S, t \in TokensFor(S) :
          Ready /\ download_edited_file(s, t)

\* requests in flight: each handler's later steps; T, I, P, Q, G and R are the
\* kinds, image ids, image paths, positions, pages and rotations the payloads
\* carry
LogSteps(T, I, P, Q, G, R) ==
    \/ \E r \in Requests, ty \in T, i \in I, p \in P, q \in Q, g \in G, a \in R :
          create_operation_read(r, ty, i, p, q, g, a)
    \/ \E r \in Requests : create_operation_insert(r)
    \/ \E r \in Requests, o \in OpInputs : delete_operation_delete(r, o)
    \/ \E r \in Requests : clear_all_operations_delete(r)

ImageSteps ==
    \/ \E r \in Requests, valid \in BOOLEAN : upload_image_save(r, valid)
    \/ \E r \in Requests, i \in ImageInputs : delete_image_delete(r, i)

CommitSteps ==
    \/ \E r \in Requests, io \in IoInputs : commit_session_composite(r, io)
    \/ \E r \in Requests : commit_session_pending(r)
    \/ \E r \in Requests, ok \in BOOLEAN : commit_session_webhook(r, ok)
    \/ \E r \in Requests : commit_session_finish(r)

\* One editor, one request at a time (the single-editor model): every handler
\* of one session, a request arriving only when none is in flight.
NextSeq ==
    \/ Environment
    \/ OpenSession(1, BOOLEAN)
    \/ LogArrivals(AllIdle, 1..1)
    \/ ImageArrivals(AllIdle, 1..1)
    \/ SessionArrivals(AllIdle, 1..1)
    \/ LogSteps(TypeInputs, ImageInputs, {Null}, {0}, {0}, {Null})
    \/ ImageSteps
    \/ CommitSteps

\* Concurrent callers on the operation log of one session.
NextLog ==
    \/ Environment
    \/ OpenSession(1, {FALSE})
    \/ LogArrivals(TRUE, 1..1)
    \/ LogSteps(TypeInputs, {Null}, {Null}, {0}, {0}, {Null})

\* One request at a time on the operation logs of two sessions.
NextLogs ==
    \/ Environment
    \/ OpenSession(MaxSessions, {FALSE})
    \/ LogArrivals(AllIdle, SessionInputs)
    \/ LogSteps(TypeInputs, {Null}, {Null}, {0}, {0}, {Null})

\* Concurrent callers on one session: commits, appends, resets and reads.
Next ==
    \/ Environment
    \/ OpenSession(1, BOOLEAN)
    \/ LogArrivals(TRUE, 1..1)
    \/ SessionArrivals(TRUE, 1..1)
    \/ LogSteps(TypeInputs, {Null}, {Null}, {0}, {0}, {Null})
    \/ CommitSteps

\* One request at a time on one session whose payloads carry positions and
\* whose log mixes add_image and move_image of one image, with commits.
NextDraw ==
    \/ Environment
    \/ OpenSession(1, BOOLEAN)
    \/ LogArrivals(AllIdle, 1..1)
    \/ SessionArrivals(AllIdle, 1..1)
    \/ LogSteps({"add_image", "move_image"}, ImageIds, {Null}, PositionInputs, {0}, {Null})
    \/ CommitSteps

\* retry_webhook unfolded attempt by attempt: one request at a time on one
\* session with a callback URL; the callback status is written from what the
\* loop returned.
HookSteps ==
    \/ \E r \in Requests, io \in IoInputs : commit_session_composite(r, io)
    \/ \E r \in Requests : commit_session_pending(r)
    \/ \E r \in Requests, response \in ResponseInputs :
          retry_webhook_attempt(r, response)
    \/ \E r \in Requests :
          req[r].returned /\ commit_session_webhook(r, req[r].success)
    \/ \E r \in Requests : commit_session_finish(r)

NextHook ==
    \/ Environment
    \/ OpenSession(1, {TRUE})
    \/ SessionArrivals(AllIdle, 1..1)
    \/ HookSteps

Spec     == Init /\ [][Next]_vars
\* the event loop runs a request that is ready: the retry loop is not starved
SpecHook == Init /\ [][NextHook]_vars
                 /\ \A r \in Requests : WF_vars(\E response \in ResponseInputs :
                                        retry_webhook_attempt(r, response))
SpecDraw == Init /\ [][NextDraw]_vars
SpecSeq  == Init /\ [][NextSeq]_vars
SpecLog  == Init /\ [][NextLog]_vars
SpecLogs == Init /\ [][NextLogs]_vars

\* The sweep step by step on two sessions, while sessions are opened, edited,
\* committed and expired, one request at a time.
SweepSteps ==
    \/ cleanup_select
    \/ \E s \in SessionIds : cleanup_delete(s)
    \/ cleanup_commit
    \/ cleanup_interrupt

NextSweep ==
    \/ Tick
    \/ upload_file(TRUE)
    \/ OpenSession(MaxSessions, {FALSE})
    \/ \E r \in Requests, s \in SessionInputs :
          AllIdle /\ create_operation_verify(r, s, s)
    \/ \E r \in Requests : create_operation_read(r, "add_image", Null, Null, 0, 0, Null)
    \/ \E r \in Requests : create_operation_insert(r)
    \/ \E r \in Requests, s \in SessionInputs :
          AllIdle /\ upload_image_verify(r, s, s)
    \/ \E r \in Requests : upload_image_save(r, TRUE)
    \/ \E s \in SessionInputs : AllIdle /\ get_session_info_direct(s, s)
    \/ \E r \in Requests, s \in SessionInputs :
          AllIdle /\ commit_session_verify(r, s, 1, s)
    \/ \E r \in Requests : commit_session_composite(r, "ok")
    \/ \E r \in Requests : commit_session_finish(r)
    \/ SweepSteps

SpecSweep == Init /\ [][NextSweep]_vars

\* One session whose log is built from payloads of the kinds T on the image
\* ids I with the positions Q, the pages G and the rotations R, and is then
\* committed; one request at a time, appends arriving while the model has
\* operation ids left.
PlaceSteps(T, I, Q, G, R) ==
    \/ upload_file(TRUE)
    \/ OpenSession(1, {FALSE})
    \/ \E r \in Requests :
          AllIdle /\ nOps < MaxOps /\ create_operation_verify(r, 1, 1)
    \/ \E r \in Requests, ty \in T, i \in I, q \in Q, g \in G, a \in R :
          create_operation_read(r, ty, i, 1, q, g, a)
    \/ \E r \in Requests : create_operation_insert(r)
    \/ \E r \in Requests : AllIdle /\ commit_session_verify(r, 1, 1, 1)
    \/ \E r \in Requests : commit_session_composite(r, "ok")
    \/ \E r \in Requests : commit_session_finish(r)

\* payloads of two images on one page: add, move (with or without a new
\* position, with or without a rotation) and delete
NextPlace ==
    PlaceSteps({"add_image", "move_image", "delete_image"}, PlacedImages,
               {Null} \cup PositionInputs, {0}, RotationInputs)

\* payloads of one image on the pages of the document and on a page outside it
NextPages ==
    PlaceSteps({"add_image", "move_image"}, {1}, PositionInputs,
               PageInputs, {Null})

\* payloads of one image on one page: add, resize (a new position box) and
\* rotate (a rotation)
NextPatch ==
    PlaceSteps({"add_image", "resize_image", "rotate_image"}, {1}, PositionInputs,
               {0}, RotationInputs)

SpecPlace == Init /\ [][NextPlace]_vars
SpecPages == Init /\ [][NextPages]_vars
SpecPatch == Init /\ [][NextPatch]_vars

\* One session with an uploaded image whose log is built from add_image
\* payloads on two identifiers, with or without an image path; the image may
\* be deleted before the session is committed; one request at a time.
NextCanvas ==
    \/ upload_file(TRUE)
    \/ OpenSession(1, {FALSE})
    \/ \E r \in Requests : AllIdle /\ upload_image_verify(r, 1, 1)
    \/ \E r \in Requests : upload_image_save(r, TRUE)
    \/ \E r \in Requests : AllIdle /\ delete_image_verify(r, 1, 1)
    \/ \E r \in Requests, i \in ImageIds : delete_image_delete(r, i)
    \/ \E r \in Requests :
          AllIdle /\ nOps < MaxOps /\ create_operation_verify(r, 1, 1)
    \/ \E r \in Requests, i \in PlacedImages, p \in PathInputs, q \in PositionInputs :
          create_operation_read(r, "add_image", i, p, q, 0, Null)
    \/ \E r \in Requests : create_operation_insert(r)
    \/ \E r \in Requests : AllIdle /\ commit_session_verify(r, 1, 1, 1)
    \/ \E r \in Requests : commit_session_composite(r, "ok")
    \/ \E r \in Requests : commit_session_finish(r)

SpecCanvas == Init /\ [][NextCanvas]_vars

\* Two sessions opened on one uploaded file and committed by concurrent
\* callers, while the clock advances.
NextShare ==
    \/ Tick
    \/ upload_file(TRUE)
    \/ OpenSession(MaxSessions, {FALSE})
    \/ \E r \in Requests, s \in SessionInputs : commit_session_verify(r, s, 1, s)
    \/ \E r \in Requests : commit_session_composite(r, "ok")
    \/ \E r \in Requests : commit_session_finish(r)
    \/ \E s \in SessionInputs : get_session_info_direct(s, s)

SpecShare == Init /\ [][NextShare]_vars

\* The daily sweep of orphaned files step by step, while sessions are opened,
\* given images, committed and purged by concurrent callers.
NextOrphans ==
    \/ Tick
    \/ cleanup_expired_sessions
    \/ upload_file(TRUE)
    \/ OpenSession(MaxSessions, {FALSE})
    \/ \E r \in Requests, s \in SessionInputs : upload_image_verify(r, s, s)
    \/ \E r \in Requests : upload_image_save(r, TRUE)
    \/ \E r \in Requests, s \in SessionInputs : commit_session_verify(r, s, 1, s)
    \/ \E r \in Requests : commit_session_composite(r, "ok")
    \/ \E r \in Requests : commit_session_finish(r)
    \/ cleanup_orphaned_files_select
    \/ cleanup_orphaned_files_walk

SpecOrphans == Init /\ [][NextOrphans]_vars

\* The life of one session from its opening to its purge: session reads,
\* commits, the clock and the hourly sweep, one request at a time.
NextPurge ==
    \/ Environment
    \/ OpenSession(1, BOOLEAN)
    \/ SessionArrivals(AllIdle, 1..1)
    \/ CommitSteps

\* the clock advances and the scheduler runs the sweep every hour
SpecPurge == Init /\ [][NextPurge]_vars
                  /\ WF_vars(Tick) /\ WF_vars(cleanup_expired_sessions)

\* ---------------------------------------------------------------- claims
Terminal(s) == sessions[s].status \in {"completed", "expired"}
Overdue(s)  == sessions[s].expires_at < now
OpsOf(table, s) == {o \in table : o.session_id = s}

\* C1: a terminal status is final: a completed session never becomes expired,
\* and an expired session never becomes completed or active, whatever is
\* accessed and however far the clock advances.
C1_TerminalIsFinal ==
    [][\A s \in DOMAIN sessions \cap DOMAIN sessions' :
          /\ sessions[s].status = "completed" => sessions'[s].status # "expired"
          /\ sessions[s].status = "expired" =>
                sessions'[s].status \notin {"completed", "active"}]_vars

\* C2: a commit request is admitted to compositing only on a session that is
\* active and not past expires_at; against any other session it is answered
\* with an error; and only an admitted commit request runs compositing, writes
\* an output document or records a completion.
C2_CommitOnlyWhenActive ==
    [][/\ \A r \in Requests :
             (req[r].pc = "idle" /\ req'[r].pc = "composite") =>
                 /\ req'[r].sid \in DOMAIN sessions
                 /\ sessions[req'[r].sid].status = "active"
                 /\ ~Overdue(req'[r].sid)
       /\ \A s \in DOMAIN sessions, f \in FileInputs, t \in TokenInputs :
             (sessions[s].status # "active" \/ Overdue(s)) =>
                 commit_code(s, f, t) \in {404, 410}
       /\ \A s \in SessionIds :
             (\/ completions'[s] # completions[s]
              \/ (s \in DOMAIN edited' /\ (s \notin DOMAIN edited \/ edited'[s] # edited[s]))
              \/ (/\ s \in DOMAIN sessions \cap DOMAIN sessions'
                  /\ sessions'[s].status = "completed"
                  /\ sessions[s].status # "completed"))
             => \E r \in Requests : req[r].pc = "composite" /\ req[r].sid = s
      ]_vars

\* a completed session with its output on disk, on which a further commit
\* request is answered 404
C2_Witness ==
    \E s \in DOMAIN sessions :
        /\ sessions[s].status = "completed"
        /\ completions[s] = 1
        /\ s \in DOMAIN edited
        /\ AllIdle
        /\ commit_code(s, sessions[s].file_id, sessions[s].session_token) = 404

\* C3: no two operations of one session hold the same sequence number, also
\* when two appends read the same maximum before either inserts; every stored
\* sequence number is at least 1.
C3_UniqueSequenceNumbers ==
    \A o1 \in ops, o2 \in ops :
        /\ o1.operation_order >= 1
        /\ (o1.session_id = o2.session_id /\ o1.operation_order = o2.operation_order)
               => o1 = o2

\* two appends computed the same next number; one has inserted, the other is
\* about to
C3_Witness ==
    \E r \in Requests, o \in ops :
        /\ req[r].pc = "op_insert"
        /\ o.session_id = req[r].sid
        /\ o.operation_order = req[r].next_order

\* C4 as stated: every newly stored operation gets a sequence number above
\* every number ever stored in its session (no number is handed out twice).
C4_NeverReused ==
    [][\A o \in ops' \ ops : o.operation_order > hwm[o.session_id]]_vars

\* C4 as amended: with one caller, every newly stored operation gets a
\* sequence number above every number its session's log holds at that moment.
C4_AboveStored ==
    [][\A o \in ops' \ ops : \A q \in OpsOf(ops, o.session_id) :
          o.operation_order > q.operation_order]_vars

\* an operation was appended to a log that holds operations and has lost some
C4_Witness ==
    \E o \in ops, q \in ops :
        /\ o.session_id = q.session_id
        /\ o.id > q.id + 1
        /\ o.operation_order > q.operation_order

\* C5: with one caller at a time, an append is admitted only on an active,
\* unexpired session with can_edit; an admitted append of a recognised kind
\* stores exactly one new operation, of that session and kind, numbered one
\* above the highest number in the session's log (1 for an empty log), and
\* every other stored operation, of any session, stays as it was.
C5_AppendStoresNext ==
    [][\A r \in Requests :
          /\ (req[r].pc = "idle" /\ req'[r].pc = "op_read") =>
                /\ sessions[req'[r].sid].status = "active"
                /\ ~Overdue(req'[r].sid)
                /\ sessions[req'[r].sid].can_edit
          /\ (req[r].pc = "op_read" /\ req'[r].pc = "op_insert") =>
                req'[r].type \in valid_types
          /\ (req[r].pc = "op_insert" /\ req'[r].pc = "idle") =>
                \E o \in ops' :
                    /\ o \notin ops
                    /\ ops' = ops \cup {o}
                    /\ o.session_id = req[r].sid
                    /\ o.operation_type = req[r].type
                    /\ \A q \in OpsOf(ops, req[r].sid) :
                          q.operation_order < o.operation_order
                    /\ \/ o.operation_order = 1
                       \/ \E q \in OpsOf(ops, req[r].sid) :
                             q.operation_order = o.operation_order - 1
      ]_vars

\* both sessions hold operations, the second session's numbered from 1
C5_Witness ==
    \E o \in ops, q \in ops :
        /\ o.session_id # q.session_id
        /\ o.id < q.id
        /\ q.operation_order = 1
        /\ \E p \in ops : p.session_id = o.session_id /\ p.operation_order = 2

\* C6: once a session is completed or expired, no append, delete or clear call
\* on it is admitted, and until cleanup removes the session the set of its
\* stored operations does not change.
C6_TerminalLogFrozen ==
    [][\A s \in DOMAIN sessions :
          Terminal(s) =>
              /\ \A tok \in TokenInputs : gate_code(s, tok) # 200
              /\ s \in DOMAIN sessions' => OpsOf(ops', s) = OpsOf(ops, s)
      ]_vars

\* C7: of the commit requests on one session at most one records a completion:
\* compositing runs to completion once per session.
C7_OneCommitSucceeds ==
    \A s \in SessionIds : completions[s] <= 1

\* C8: while a session's status is completed (and cleanup has not removed it),
\* its output document is on disk fully written, and the session carries a
\* completion time and the location and size of that document.
C8_CompletedHasOutput ==
    \A s \in DOMAIN sessions :
        sessions[s].status = "completed" =>
            /\ sessions[s].completed_at # NoTime
            /\ sessions[s].edited_file_path = s
            /\ s \in DOMAIN edited
            /\ edited[s].written = "full"
            /\ sessions[s].edited_file_size = edited[s].size

\* C9: with one request at a time, a commit whose compositing fails (the source
\* cannot be read or the output cannot be written) answers at once and changes
\* no row and deletes no file: the session stays active with no completion
\* time, output location or callback status, the source file and the session's
\* images stay; and a commit records a completion only after a full write whose
\* size it stores.
C9_FailedCompositeKeepsSession ==
    [][\A r \in Requests :
          LET sid == req[r].sid IN
          /\ (req[r].pc = "composite" /\ failures' # failures) =>
                /\ req'[r] = Idle
                /\ sessions' = sessions
                /\ sessions[sid].status = "active"
                /\ sessions[sid].completed_at = NoTime
                /\ sessions[sid].edited_file_path = Null
                /\ sessions[sid].callback_status = "none"
                /\ UNCHANGED <<files, uploads, images, tempFiles, ops, completions>>
          /\ (req[r].pc = "composite" /\ req'[r].pc \in {"webhook_pending", "finish"}) =>
                /\ failures' = failures
                /\ edited'[sid].written = "full"
                /\ sessions'[sid].edited_file_size = edited'[sid].size
      ]_vars

\* a commit failed on a session, and a later commit on it succeeded
C9_Witness ==
    \E s \in failures :
        /\ s \in DOMAIN sessions
        /\ sessions[s].status = "completed"
        /\ s \in DOMAIN edited
        /\ edited[s].written = "full"

\* C10: on a session whose can_edit flag is false no mutating request is
\* admitted, and no step changes its operations, its images, its output
\* document or its status (other than to expired when its time has passed).
C10_CanEditGate ==
    [][\A s \in DOMAIN sessions \cap DOMAIN sessions' :
          ~CanEdit(s) =>
              /\ \A r \in Requests :
                    (req[r].pc = "idle" /\ req'[r].pc # "idle") => req'[r].sid # s
              /\ OpsOf(ops', s) = OpsOf(ops, s)
              /\ {i \in images' : i.session_id = s} = {i \in images : i.session_id = s}
              /\ (s \in DOMAIN edited') = (s \in DOMAIN edited)
              /\ sessions'[s].status \in {sessions[s].status, "expired"}
      ]_vars

\* C11: an access with the session's token that reaches an active session past
\* expires_at is answered with the expiry error (410) and leaves the session
\* persisted as expired, whichever route it takes: a route that runs
\* verify_session_token, the direct session info, or the download; every
\* append on an expired session is rejected.
C11_ExpiryOnAnyAccess ==
    \A s \in DOMAIN sessions :
        LET tok == sessions[s].session_token IN
        /\ (sessions[s].status = "active" /\ Overdue(s)) =>
              /\ verify_code(s, tok) = 410
              /\ verify_sessions(s, tok)[s].status = "expired"
              /\ info_direct_code(s, tok) = 410
              /\ download_code(s, tok) = 410
        /\ sessions[s].status = "expired" =>
              \A t \in TokenInputs : gate_code(s, t) \in {404, 410}

\* C12: once a session is expired, an access changes nothing: the lazy check of
\* verify_session_token and of the direct session info write the row as it
\* is, and no step changes any field of the session, its operations, its
\* images or its output document while the row exists.
C12_ExpiryIdempotent ==
    [][\A s \in DOMAIN sessions :
          sessions[s].status = "expired" =>
              /\ \A t \in TokenInputs : verify_sessions(s, t) = sessions
              /\ info_direct_code(s, sessions[s].session_token) = 410
              /\ s \in DOMAIN sessions' =>
                    /\ sessions'[s] = sessions[s]
                    /\ OpsOf(ops', s) = OpsOf(ops, s)
                    /\ {i \in images' : i.session_id = s} = {i \in images : i.session_id = s}
                    /\ (s \in DOMAIN edited') = (s \in DOMAIN edited)
      ]_vars

\* an expired session that is accessed again two hours after expires_at
C12_Witness ==
    \E s \in DOMAIN sessions :
        /\ sessions[s].status = "expired"
        /\ now >= sessions[s].expires_at + 2
        /\ AllIdle
        /\ verify_code(s, sessions[s].session_token) = 404
        /\ info_direct_code(s, sessions[s].session_token) = 410

\* C13: a delete or clear request is admitted only on an existing, active
\* session with can_edit (404 for an unknown session, 403 without can_edit); an
\* admitted delete removes at most one operation, one of its own session, and
\* answers 404 and removes nothing when the id names no operation of that
\* session; an admitted clear removes every operation of its session and no
\* other; a rejected request leaves every log as it was.
C13_DeleteAndClear ==
    [][/\ \A r \in Requests :
             LET sid == req[r].sid IN
             /\ (req[r].pc = "idle" /\ req'[r].pc \in {"op_delete", "op_clear"}) =>
                   /\ req'[r].sid \in DOMAIN sessions
                   /\ sessions[req'[r].sid].status = "active"
                   /\ CanEdit(req'[r].sid)
                   /\ ops' = ops
             /\ (req[r].pc = "op_delete" /\ req'[r].pc = "idle") =>
                   \E o \in OpInputs :
                       /\ ops' = ops \ {x \in OpsOf(ops, sid) : x.id = o}
                       /\ Cardinality(ops \ ops') <= 1
                       /\ (ops' = ops) = (delete_operation_code(sid, o) = 404)
             /\ (req[r].pc = "op_clear" /\ req'[r].pc = "idle") =>
                   ops' = {x \in ops : x.session_id # sid}
       /\ \A s \in SessionIds, t \in TokenInputs :
             /\ s \notin DOMAIN sessions => gate_code(s, t) = 404
             /\ (s \in DOMAIN sessions /\ verify_code(s, t) = 200 /\ ~CanEdit(s)) =>
                   gate_code(s, t) = 403
       /\ \A s \in SessionIds, o \in OpInputs :
             (\A x \in ops : x.id = o => x.session_id # s) =>
                 delete_operation_code(s, o) = 404
       /\ ops' # ops =>
             \/ \E r \in Requests :
                   /\ req[r].pc \in {"op_insert", "op_delete", "op_clear"}
                   /\ req'[r].pc = "idle"
             \/ DOMAIN sessions' # DOMAIN sessions
      ]_vars

\* one session has lost its first operation and kept its second, while the
\* other session holds an operation
C13_Witness ==
    \E o \in ops, q \in ops :
        /\ o.operation_order = 2
        /\ \A x \in OpsOf(ops, o.session_id) : x.operation_order # 1
        /\ q.session_id # o.session_id
        /\ AllIdle

\* C14: an append whose kind is not add_image, move_image, resize_image,
\* rotate_image or delete_image is rejected at validation and stores nothing:
\* the step that rejects it leaves every log and the session's next sequence
\* number as they were, only a request with one of the five kinds reaches the
\* insert, and no stored operation has another kind.
C14_UnknownKindRejected ==
    [][LET Kinds == {"add_image", "move_image", "resize_image", "rotate_image",
                     "delete_image"} IN
       /\ \A r \in Requests :
             /\ (req[r].pc = "op_read" /\ req'[r].pc = "idle") =>
                   /\ ops' = ops
                   /\ \A s \in SessionIds : next_order(s)' = next_order(s)
             /\ (req[r].pc = "op_read" /\ req'[r].pc = "op_insert") =>
                   req'[r].type \in Kinds
       /\ \A o \in ops' : o.operation_type \in Kinds
      ]_vars

\* an append is at its validation on a session whose log holds an operation
C14_Witness ==
    \E r \in Requests :
        /\ req[r].pc = "op_read"
        /\ OpsOf(ops, req[r].sid) # {}
        /\ next_order(req[r].sid) = 2

\* C15: an append whose payload is malformed for its kind is rejected and
\* stores nothing: no stored add_image operation lacks its image identifier.
C15_MalformedPayloadRejected ==
    \A o \in ops : o.operation_type = "add_image" => o.image_id # Null

\* C17: an add_image operation is stored only if its image identifier names an
\* image of the operation's own session at that moment, and it stores that
\* image's path.
C17_ImageOfOwnSession ==
    [][\A o \in ops' \ ops :
          (o.operation_type = "add_image" /\ o.image_id # Null) =>
              \E i \in images :
                  /\ i.id = o.image_id
                  /\ i.session_id = o.session_id
                  /\ i.file_path = o.image_path
      ]_vars

\* C18: no step of a session-level operation (operations, images, commit,
\* webhook, cleanup of sessions) removes the stored source PDF of a file.
C18_SourceKept ==
    [][uploads \subseteq uploads']_vars

\* C16: a stored operation is never changed in place: as long as a row with
\* its id is stored, its kind, payload, sequence number and session are what
\* they were when it was stored, whatever runs (appends, reads, commit with the
\* reconciliation of move_image into add_image, webhook, cleanup).
C16_OperationsImmutable ==
    [][\A o \in ops : (\E q \in ops' : q.id = o.id) => o \in ops']_vars

\* a commit has completed a session whose log holds an add_image and a later
\* move_image of the same image to another position: the commit drew the image
\* at the moved position, the stored add_image keeps its own
C16_Witness ==
    \E s \in DOMAIN sessions, a \in ops, m \in ops :
        /\ sessions[s].status = "completed"
        /\ a.session_id = s /\ m.session_id = s
        /\ a.operation_type = "add_image" /\ m.operation_type = "move_image"
        /\ m \in MovesOnto(a)
        /\ m.position # a.position
        /\ reconciled_position(a) = m.position
        /\ reconciled(s) # SessionOps(s)

\* C19: retry_webhook makes at most WEBHOOK_RETRY_ATTEMPTS attempts, returns
\* True at its first successful attempt and makes none after it, returns False
\* exactly when all the attempts failed, the callback status is written from
\* what it returned, and a running loop always returns.
C19_RetryBounded ==
    /\ [][\A r \in Requests :
             /\ req'[r].attempt <= WEBHOOK_RETRY_ATTEMPTS
             /\ req'[r].attempt # req[r].attempt =>
                   \/ req'[r] = Idle
                   \/ /\ req'[r].attempt = req[r].attempt + 1
                      /\ ~req[r].returned
                      /\ req'[r].success => req'[r].returned
                      /\ ~req'[r].success =>
                            (req'[r].returned = (req'[r].attempt = WEBHOOK_RETRY_ATTEMPTS))
             /\ (req'[r].returned /\ req'[r].success) => req'[r].attempt >= 1
             /\ (req[r].pc = "webhook_send" /\ req'[r].pc = "finish") =>
                   /\ req[r].returned
                   /\ sessions'[req[r].sid].callback_status =
                          IF req[r].success THEN "success" ELSE "failed"
         ]_vars
    /\ \A r \in Requests :
          (req[r].pc = "webhook_send" /\ ~req[r].returned) ~> req[r].returned

\* the loop returned False after its last attempt
C19_Witness ==
    \E r \in Requests :
        /\ req[r].returned /\ ~req[r].success
        /\ req[r].attempt = WEBHOOK_RETRY_ATTEMPTS
        /\ req[r].pc = "finish"
        /\ sessions[req[r].sid].callback_status = "failed"

\* C20: the waits of retry_webhook are 1, 2, 4, ... seconds: the k-th wait is
\* 2^(k-1) seconds and follows the k-th failed attempt; there is no wait after
\* a successful attempt and none after the last attempt.
C20_ExponentialBackoff ==
    \A r \in Requests :
        LET n == Len(req[r].slept) IN
        /\ \A k \in 1..n : req[r].slept[k] = 2 ^ (k - 1)
        /\ ~req[r].returned => n = req[r].attempt
        /\ (req[r].returned /\ req[r].success) => n = req[r].attempt - 1
        /\ (req[r].returned /\ ~req[r].success) => n = WEBHOOK_RETRY_ATTEMPTS - 1

\* the endpoint failed twice and succeeded at the third attempt: True after
\* three attempts, with waits of 1 s and 2 s
C20_Witness ==
    \E r \in Requests :
        /\ req[r].returned /\ req[r].success
        /\ req[r].attempt = 3
        /\ req[r].slept = <<1, 2>>

\* C21: a webhook attempt counts as successful for every status from 200 to
\* 299 received within the timeout, and as failed for every other status, for
\* a timeout and for a network error.
C21_Any2xxSucceeds ==
    \A r \in Requests :
        req[r].attempt >= 1 =>
            (req[r].success =
                (/\ req[r].response.kind = "status"
                 /\ req[r].response.status_code \in 200..299))

\* C22: the webhook never affects the commit outcome: a commit reaches the
\* webhook only from a compositing that succeeded, with the session persisted
\* as completed and its output recorded and fully written; a commit whose
\* compositing failed ends without a webhook; no step of the commit's webhook
\* phase changes the output file or any field of the session but
\* callback_status;
\* and whatever retry_webhook returned, the commit goes on to its successful
\* answer with the session completed.
C22_WebhookNeverAffectsCommit ==
    [][\A r \in Requests :
          LET sid == req[r].sid IN
          /\ (req[r].pc # "webhook_pending" /\ req'[r].pc = "webhook_pending") =>
                /\ req[r].pc = "composite"
                /\ failures' = failures
                /\ sessions'[req'[r].sid].status = "completed"
                /\ sessions'[req'[r].sid].edited_file_path # Null
                /\ sessions'[req'[r].sid].edited_file_path \in DOMAIN edited'
                /\ edited'[req'[r].sid].written = "full"
          /\ (req[r].pc # "webhook_send" /\ req'[r].pc = "webhook_send") =>
                /\ req[r].pc = "webhook_pending"
                /\ req'[r].attempt = 0
                /\ sessions'[sid].status = "completed"
          /\ (req[r].pc = "composite" /\ failures' # failures) => req'[r] = Idle
          /\ (req[r].pc \in {"webhook_pending", "webhook_send"} /\ req'[r] # req[r]) =>
                /\ edited' = edited
                /\ (sid \in DOMAIN sessions /\ sid \in DOMAIN sessions') =>
                      /\ sessions'[sid].status = "completed"
                      /\ [sessions'[sid] EXCEPT !.callback_status = "none"]
                            = [sessions[sid] EXCEPT !.callback_status = "none"]
          /\ (req[r].pc = "webhook_send" /\ req'[r].pc # "webhook_send"
                 /\ sid \in DOMAIN sessions) =>
                /\ req'[r].pc = "finish"
                /\ sessions'[sid].callback_status \in {"success", "failed"}
      ]_vars

\* every attempt met a network error, the delivery is stored as failed, and the
\* commit is at its successful answer: the session is completed with its
\* output on disk
C22_Witness ==
    \E r \in Requests :
        /\ req[r].pc = "finish"
        /\ req[r].returned /\ ~req[r].success
        /\ req[r].response.kind = "network_error"
        /\ req[r].sid \in DOMAIN sessions
        /\ sessions[req[r].sid].status = "completed"
        /\ sessions[req[r].sid].callback_status = "failed"
        /\ sessions[req[r].sid].edited_file_path \in DOMAIN edited
        /\ edited[req[r].sid].written = "full"

\* C23: the delivery status of a session with a callback URL goes from unset
\* to pending, only once a commit has completed it, then to exactly one of
\* success or failed, and never changes again; the delivery status of a
\* session without a callback URL is never set.
C23_DeliveryStatusOnce ==
    [][\A s \in DOMAIN sessions \cap DOMAIN sessions' :
          LET a == sessions[s].callback_status
              b == sessions'[s].callback_status IN
          /\ ~sessions[s].callback_url => b = "none"
          /\ a # b =>
                \/ a = "none" /\ b = "pending" /\ completions[s] >= 1
                \/ a = "pending" /\ b \in {"success", "failed"}
      ]_vars

\* a session the retention rule releases: expired or completed, and expires_at
\* more than the grace period in the past
Purgeable(s) ==
    /\ sessions[s].status \in {"expired", "completed"}
    /\ sessions[s].expires_at + GracePeriodHours < now

Protected(s) ==
    \/ sessions[s].status = "active" /\ ~Overdue(s)
    \/ now <= sessions[s].expires_at + GracePeriodHours
    \/ sweep.pc # "idle" /\ s > sweep.born

\* what the sweep can remove of session s: its row, its operations, its image
\* rows, its image files and its output file
Artifacts(s) ==
    <<IF s \in DOMAIN sessions THEN {sessions[s]} ELSE {},
      OpsOf(ops, s),
      {i \in images : i.session_id = s},
      {f \in tempFiles : f.sid = s},
      IF s \in DOMAIN edited THEN {edited[s]} ELSE {}>>

\* C25: a cleanup sweep, run step by step while sessions are created and used,
\* removes neither the row nor any artifact of a session that is active and
\* unexpired, within the grace period, or created after the sweep computed its
\* cutoff: every session it has selected or removes is expired or completed,
\* past the grace period at the cutoff and older than the cutoff computation,
\* and a step of the sweep leaves every other session's row and artifacts as
\* they were; a step on a session whose files are already gone (a re-run
\* after an interruption) changes nothing on disk and the sweep goes on.
C25_SweepSparesLiveSessions ==
    [][/\ \A s \in DOMAIN sessions :
             /\ Protected(s) =>
                   /\ s \in DOMAIN sessions'
                   /\ s \notin DOMAIN sweep'.expired_sessions \cup sweep'.deleted
                   /\ sweep' # sweep => Artifacts(s)' = Artifacts(s)
             /\ s \notin DOMAIN sessions' => s \in sweep.deleted
       /\ \A s \in DOMAIN sweep'.expired_sessions \cup sweep'.deleted :
             /\ s <= sweep'.born
             /\ s \in DOMAIN sessions =>
                   /\ sessions[s].status \in {"expired", "completed"}
                   /\ sessions[s].expires_at < sweep'.cutoff_time
                   /\ sweep'.cutoff_time <= now - GracePeriodHours
       /\ \A s \in SessionIds :
             (sweep' # sweep /\ Artifacts(s)' # Artifacts(s)) =>
                 s \in sweep.deleted \cup sweep'.deleted
       /\ \A s \in DOMAIN sweep.expired_sessions :
             (sweep.pc = "loop" /\ s \notin DOMAIN edited
                /\ {f \in tempFiles : f.sid = s} = {}
                /\ s \in sweep'.deleted /\ s \notin sweep.deleted) =>
                 /\ disk' = disk
                 /\ sweep'.pc = "loop"
      ]_vars

\* a sweep was interrupted after it had deleted the output of the completed
\* session 1; the next sweep has selected session 1 again, its output already
\* gone, and session 2 was opened after this sweep computed its cutoff
C25_Witness ==
    /\ sweep.pc = "loop" /\ sweep.runs = 2
    /\ 1 \in DOMAIN sweep.expired_sessions
    /\ 1 \in DOMAIN sessions
    /\ sessions[1].edited_file_path # Null
    /\ sessions[1].edited_file_path \notin DOMAIN edited
    /\ 2 \in DOMAIN sessions
    /\ 2 > sweep.born
    /\ sessions[2].status = "active"
    /\ ~Overdue(2)

\* C26: every session is eventually destroyed: with the clock advancing and
\* the sweep running, a session whose retention window ends within the hours
\* the clock covers is eventually purged, whether or not it is ever committed
\* or accessed again.
C26_EventuallyPurged ==
    \A s \in SessionIds :
        (s \in DOMAIN sessions /\ sessions[s].expires_at + GracePeriodHours < MaxTime)
            ~> (s \notin DOMAIN sessions)

\* the operations of session s on page p about image i, of the given kinds
Touching(s, p, i, kinds) ==
    {o \in SessionOps(s) :
        o.page = p /\ o.image_id = i /\ o.operation_type \in kinds}

\* the operations of S that come after o in the log
After(S, o) == {q \in S : q.operation_order > o.operation_order}

\* the overlay the commit wrote for page p of session s
Overlay(s, p) == edited[s].pages[p + 1].overlay

\* the session's output was written by a commit over the log it holds now
Composited(s) ==
    /\ s \in DOMAIN sessions /\ sessions[s].status = "completed"
    /\ s \in DOMAIN edited /\ edited[s].written = "full"

\* C27: in the reconciled result of a commit, an image whose last add_image or
\* delete_image on a page is a delete_image has no placement on that page,
\* however many operations touched it before; an image added again after a
\* delete_image is placed with the image reference of that last add_image.
C27_DeleteRemovesPlacement ==
    \A s \in DOMAIN sessions :
        Composited(s) =>
            \A p \in 0..(MaxPages - 1), i \in PlacedImages :
                LET T == Touching(s, p, i, {"add_image", "delete_image"}) IN
                \A o \in T :
                    After(T, o) = {} =>
                        IF o.operation_type = "delete_image"
                        THEN i \notin DOMAIN Overlay(s, p)
                        ELSE /\ i \in DOMAIN Overlay(s, p)
                             /\ Overlay(s, p)[i].image_path = o.image_path

\* the operation of S that comes last in the log
Latest(S) == CHOOSE o \in S : After(S, o) = {}

\* C28: a move_image with no earlier add_image of its identifier on its page is
\* dropped: an identifier has a placement on a page exactly if the page's
\* operations hold an add_image for it, the placement is that of the last
\* add_image, at the position of the last move_image after it (the add's own
\* position if there is none), whatever move_image operations came before
\* it, and a log with such moves is composited like any other.
C28_MoveBeforeAddDropped ==
    \A s \in DOMAIN sessions :
        Composited(s) =>
            \A p \in 0..(MaxPages - 1), i \in PlacedImages :
                LET A == Touching(s, p, i, {"add_image"})
                    M == {m \in Touching(s, p, i, {"move_image"}) : m.position # Null}
                IN
                /\ (i \in DOMAIN Overlay(s, p)) = (A # {})
                /\ A # {} =>
                      /\ Overlay(s, p)[i].image_path = Latest(A).image_path
                      /\ Overlay(s, p)[i].position =
                            IF After(M, Latest(A)) = {} THEN Latest(A).position
                            ELSE Latest(After(M, Latest(A))).position

\* a committed log [move_image to position 2, add_image at position 1,
\* move_image on another page]: the image is placed on page 0 at position 1
\* and page 1 has no placement
C28_Witness ==
    /\ Composited(1)
    /\ \E m \in ops, a \in ops, n \in ops :
          /\ m.operation_type = "move_image" /\ m.page = 0 /\ m.position = 2
          /\ m.operation_order = 1
          /\ a.operation_type = "add_image" /\ a.page = 0 /\ a.position = 1
          /\ a.operation_order = 2
          /\ n.operation_type = "move_image" /\ n.page = 1 /\ n.position = 2
          /\ n.operation_order = 3
    /\ Overlay(1, 0)[1].position = 1
    /\ Overlay(1, 1) = <<>>

\* C29: a move_image of an identifier that has a placement changes that
\* placement's position to the new position (and its rotation when the move
\* carries one) and nothing else: the image reference stays, every other
\* identifier's placement stays, no placement appears or disappears; the
\* commit writes the result of the whole page log, and the log [add_image of A
\* at position 1, move_image of A to position 2] on page 0 is written as
\* exactly one placement, A at position 2.
C29_MoveChangesPositionOnly ==
    \A s \in DOMAIN sessions, p \in 0..(MaxPages - 1) :
        LET seq == ops_by_page(s, p) IN
        /\ \A k \in 1..Len(seq) :
              LET m == seq[k]
                  before == image_ops(SubSeq(seq, 1, k - 1))
                  after == image_ops(SubSeq(seq, 1, k))
              IN (m.operation_type = "move_image" /\ m.image_id \in DOMAIN before) =>
                    /\ DOMAIN after = DOMAIN before
                    /\ \A j \in DOMAIN before \ {m.image_id} : after[j] = before[j]
                    /\ after[m.image_id].image_path = before[m.image_id].image_path
                    /\ after[m.image_id].position =
                          IF m.position # Null THEN m.position
                          ELSE before[m.image_id].position
                    /\ after[m.image_id].rotation =
                          IF m.rotation # Null THEN m.rotation
                          ELSE before[m.image_id].rotation
        /\ Composited(s) =>
              /\ Overlay(s, p) = image_ops(seq)
              /\ (/\ p = 0 /\ Len(ordered_operations(s)) = 2
                  /\ ordered_operations(s)[1].operation_type = "add_image"
                  /\ ordered_operations(s)[2].operation_type = "move_image"
                  /\ \A k \in 1..2 : /\ ordered_operations(s)[k].image_id = 1
                                      /\ ordered_operations(s)[k].page = 0
                                      /\ ordered_operations(s)[k].position = k) =>
                    /\ DOMAIN Overlay(s, 0) = {1}
                    /\ Overlay(s, 0)[1].position = 2
                    /\ Overlay(s, 0)[1].image_path = ordered_operations(s)[1].image_path

\* a committed log [add_image of 1 at position 1, add_image of 2 at position 1,
\* move_image of 1 to position 2 with a rotation]: image 1 is placed at
\* position 2 with the rotation, image 2 as it was added
C29_Witness ==
    /\ Composited(1)
    /\ Len(ordered_operations(1)) = 3
    /\ LET l == ordered_operations(1) IN
       /\ l[1].operation_type = "add_image" /\ l[1].image_id = 1
       /\ l[1].position = 1 /\ l[1].rotation = Null
       /\ l[2].operation_type = "add_image" /\ l[2].image_id = 2
       /\ l[2].position = 1
       /\ l[3].operation_type = "move_image" /\ l[3].image_id = 1
       /\ l[3].position = 2 /\ l[3].rotation = 1
       /\ Overlay(1, 0)[1] = [placement(l[1]) EXCEPT !.position = 2, !.rotation = 1]
       /\ Overlay(1, 0)[2] = placement(l[2])

\* C30: whatever the log, the output a commit writes has the pages of the
\* source, as many and in the same order, and a page that no operation of the
\* log names is written as it is, without an overlay.
C30_PagesPreserved ==
    \A s \in DOMAIN sessions :
        Composited(s) =>
            /\ Len(edited[s].pages) = Len(SourcePages)
            /\ \A i \in 1..Len(SourcePages) :
                  /\ edited[s].pages[i].page = SourcePages[i]
                  /\ (\A o \in SessionOps(s) : o.page # SourcePages[i]) =>
                        edited[s].pages[i].overlay = <<>>

\* a committed log with an add_image on page 1 and an operation on a page
\* outside the document: two pages are written, page 0 as it is, page 1 with
\* the image
C30_Witness ==
    /\ Composited(1)
    /\ \E a \in ops, b \in ops :
          /\ a.operation_type = "add_image" /\ a.page = 1
          /\ b.operation_type = "add_image" /\ b.page = MaxPages
    /\ \A o \in ops : o.page # 0
    /\ Len(edited[1].pages) = MaxPages
    /\ edited[1].pages[1].overlay = <<>>
    /\ edited[1].pages[2].overlay # <<>>

\* C31: a commit that fails in compositing (the source cannot be read, or the
\* output cannot be written) leaves no file at the session's output location:
\* a session whose only commits failed has no output file, partial or full.
C31_FailedCommitLeavesNoOutput ==
    \A s \in failures : completions[s] = 0 => s \notin DOMAIN edited

\* C32: in the output of a commit, the placement of an added identifier has
\* the size of the last resize_image that follows its last add_image and the
\* rotation of the last rotate_image that follows it (the add's own where there
\* is none); the image reference stays that of the add_image.
C32_ResizeRotatePatch ==
    \A s \in DOMAIN sessions :
        Composited(s) =>
            \A p \in 0..(MaxPages - 1), i \in PlacedImages :
                LET A == Touching(s, p, i, {"add_image"})
                    Z == Touching(s, p, i, {"resize_image"})
                    R == {o \in Touching(s, p, i, {"rotate_image"}) : o.rotation # Null}
                IN
                A # {} =>
                    /\ i \in DOMAIN Overlay(s, p)
                    /\ Overlay(s, p)[i].image_path = Latest(A).image_path
                    /\ Overlay(s, p)[i].position =
                          IF After(Z, Latest(A)) = {} THEN Latest(A).position
                          ELSE Latest(After(Z, Latest(A))).position
                    /\ Overlay(s, p)[i].rotation =
                          IF After(R, Latest(A)) = {} THEN Latest(A).rotation
                          ELSE Latest(After(R, Latest(A))).rotation

\* the operations of S in log order
InOrder(S) ==
    [n \in 1..Cardinality(S) |->
        CHOOSE o \in S : Cardinality({q \in S : q.operation_order < o.operation_order}) = n - 1]

\* the operations of session s whose page is a page of the document
InDocument(s) ==
    {o \in SessionOps(s) : o.page >= 0 /\ o.page < Len(SourcePages)}

\* C33: an operation whose page index is outside the document (negative, or
\* at least the page count) does not fail the commit and adds no placement: a
\* commit whose compositing can read and write completes the session, and
\* every page of its output is what the operations of the log that name a
\* page of the document give, as if the other operations were not in the log.
C33_OutOfRangeDropped ==
    [][\A r \in Requests :
          (req[r].pc = "composite" /\ req'[r] # req[r] /\ req[r].fid \in uploads) =>
              LET s == req[r].sid IN
              /\ sessions'[s].status = "completed"
              /\ edited'[s].written = "full"
              /\ Len(edited'[s].pages) = Len(SourcePages)
              /\ \A n \in 1..Len(SourcePages) :
                    edited'[s].pages[n].overlay =
                        image_ops(SelectSeq(InOrder(InDocument(s)),
                                            LAMBDA o : o.page = SourcePages[n]))
      ]_vars

\* a committed log [add_image on page 0, add_image on page -1, add_image on
\* the page after the last]: page 0 carries the first image and the last
\* page carries nothing
C33_Witness ==
    /\ Composited(1)
    /\ \E a \in ops, b \in ops, c \in ops :
          /\ a.operation_type = "add_image" /\ a.page = 0
          /\ b.operation_type = "add_image" /\ b.page = 0 - 1
          /\ c.operation_type = "add_image" /\ c.page = MaxPages
    /\ 1 \in DOMAIN Overlay(1, 0)
    /\ Overlay(1, MaxPages - 1) = <<>>

\* the log seq with its k-th and (k+1)-th operations swapped
Swap(seq, k) ==
    [n \in 1..Len(seq) |->
        IF n = k THEN seq[k + 1] ELSE IF n = k + 1 THEN seq[k] ELSE seq[n]]

\* the operations of seq on identifier i, in order
Only(seq, i) == SelectSeq(seq, LAMBDA o : o.image_id = i)

\* the placement of identifier i in the map f, if it has one
PlacementOf(f, i) == [x \in DOMAIN f \cap {i} |-> f[x]]

\* C34: operations on different identifiers are independent: in the output of
\* a commit, the placement of every identifier on a page is what the page's
\* operations on that identifier alone give, in log order, and the page's log
\* with two adjacent operations on different identifiers swapped gives the
\* same placement for every identifier.
C34_DifferentIdentifiersCommute ==
    \A s \in DOMAIN sessions :
        Composited(s) =>
            \A p \in 0..(MaxPages - 1) :
                LET seq == ops_by_page(s, p) IN
                /\ \A i \in PlacedImages :
                      PlacementOf(Overlay(s, p), i) = image_ops(Only(seq, i))
                /\ \A k \in 1..(Len(seq) - 1) :
                      seq[k].image_id # seq[k + 1].image_id =>
                          image_ops(Swap(seq, k)) = Overlay(s, p)

\* a committed log [add_image of image 1, add_image of image 2, move_image of
\* image 1 to another position]: both images are placed, image 1 at the moved
\* position
C34_Witness ==
    /\ Composited(1)
    /\ \E a \in ops, b \in ops, m \in ops :
          /\ a.operation_type = "add_image" /\ a.image_id = 1 /\ a.operation_order = 1
          /\ b.operation_type = "add_image" /\ b.image_id = 2 /\ b.operation_order = 2
          /\ m.operation_type = "move_image" /\ m.image_id = 1 /\ m.operation_order = 3
          /\ m.position # Null /\ m.position # a.position
          /\ Overlay(1, 0)[1].position = m.position
          /\ Overlay(1, 0)[2].position = b.position

\* C35: a placement that cannot be drawn (no image path, or no file under its
\* path) does not abort the page or the commit: a commit whose compositing can
\* read and write completes the session, and every placement of a page whose
\* file is on disk is drawn, with its own position and rotation and with no
\* canvas state of another placement in force.
C35_BadPlacementSkipped ==
    [][\A r \in Requests :
          (req[r].pc = "composite" /\ req'[r] # req[r] /\ req[r].fid \in uploads) =>
              LET s == req[r].sid IN
              /\ sessions'[s].status = "completed"
              /\ \A n \in 1..Len(SourcePages) :
                    LET pg == edited'[s].pages[n] IN
                    \A i \in DOMAIN pg.overlay :
                        (/\ pg.overlay[i].image_path # Null
                         /\ on_disk(tempFiles, pg.overlay[i].image_path)) =>
                            \E k \in 1..Len(pg.drawn) :
                                /\ pg.drawn[k].image_id = i
                                /\ pg.drawn[k].result = "drawn"
                                /\ pg.drawn[k].position = pg.overlay[i].position
                                /\ pg.drawn[k].rotation = pg.overlay[i].rotation
                                /\ pg.drawn[k].frame = <<>>
      ]_vars

\* C36: a page for which no image could be drawn (every placement lacks an
\* image path or its file) is copied unchanged: no overlay is merged onto it.
C36_NothingDrawnNothingMerged ==
    \A s \in DOMAIN sessions :
        Composited(s) =>
            \A n \in 1..Len(SourcePages) :
                LET pg == edited[s].pages[n] IN
                (\A k \in 1..Len(pg.drawn) : pg.drawn[k].result # "drawn") => ~pg.merged

C38_OrphanSweepSparesSessions ==
    [][(sweep.pc = "walk" /\ sweep'.pc = "idle") =>
          \A f \in tempFiles \ tempFiles' : f.sid \notin DOMAIN sessions]_vars

\* C39: a download is answered 200 only for a session that is completed,
\* whose token is the one sent and whose recorded output file is on disk; for
\* an active or an expired session it is answered with an error; and it
\* leaves the table of sessions as it is, also for an active session past
\* expires_at.
C39_DownloadReadsOnly ==
    \A s \in SessionIds, t \in TokenInputs :
        /\ download_code(s, t) = 200 =>
              /\ s \in DOMAIN sessions
              /\ sessions[s].status = "completed"
              /\ sessions[s].session_token = t
              /\ sessions[s].edited_file_path \in DOMAIN edited
        /\ (s \in DOMAIN sessions /\ sessions[s].status \in {"active", "expired"}) =>
              download_code(s, t) \in {400, 404}
        /\ download_sessions(s, t) = sessions

\* an active session past expires_at that no access has touched: a download
\* with its token is answered 400 and the session stays active
C39_Witness ==
    \E s \in DOMAIN sessions :
        /\ AllIdle
        /\ sessions[s].status = "active" /\ Overdue(s)
        /\ download_code(s, sessions[s].session_token) = 400
        /\ download_sessions(s, sessions[s].session_token)[s].status = "active"
====
